---- MODULE Spec2Model ----
(***************************************************************************)
(* Model of the batch deployment orchestrator, src/batch_deploy.py, and of *)
(* the worker pool that runs the generation jobs, src/batch_run.py.        *)
(*                                                                         *)
(* main() walks the articles of a batch one after another.  For every     *)
(* article that is done and has a Dockerfile it gets or builds the image,  *)
(* looks for a free host port, gets or runs the container named after the  *)
(* article, polls it with check_aliveness, and then either sets the        *)
(* restart policy or stops and removes the container.  The container       *)
(* engine and the host's ports are the environment: every engine call may  *)
(* raise, a container's status is what the engine reports at each reload.  *)
(*                                                                         *)
(* batch_run.main() puts the uuid of every article on a queue and starts   *)
(* the worker processes; each worker pulls uuids while it finds the queue  *)
(* not empty and calls run_datou on each.  The two programs are separate   *)
(* invocations: Spec is one invocation of batch_deploy.main(), SpecPool    *)
(* one invocation of batch_run.main().                                     *)
(***************************************************************************)
EXTENDS Integers, Sequences, FiniteSets, TLC

(* ----------------------------- bounds -------------------------------- *)
\* number of articles in the batch (uuids 1..NumTasks, in file order)
NumTasks == 2
\* first candidate port (--port_start, scaled down from 9001)
PortStart == 1
\* number of ports from PortStart up to the largest port bind() accepts
NumPorts == 3
\* number of articles batch_run.main() puts on the queue at most
NumIds == 2
\* number of worker processes (NUM_PROCESSES, scaled down from 8)
NumWorkers == 2

(* ------------------------- program constants ------------------------- *)
\* check_aliveness(timeout=20, interval=3)
Timeout == 20
Interval == 3

Tasks == 1..NumTasks
Ids == 1..NumIds
Workers == 1..NumWorkers
\* bind() raises OverflowError for a port above the largest port number
MaxPort == PortStart + NumPorts - 1
Ports == PortStart..MaxPort

(* ------------------------------ state -------------------------------- *)
VARIABLES
    article,     \* the metadata file and workspace of each article
    images,      \* the tags the engine holds an image for
    containers,  \* the engine's container of each canonical name
    extPorts,    \* host ports bound by other processes
    pc,          \* position of main()
    i,           \* the article the for loop is at
    c2a,         \* the list of result items of this invocation
    host_port,   \* local host_port (0: not assigned)
    container,   \* local container: the handle and its cached status
    t,           \* check_aliveness: seconds since start
    polls,       \* check_aliveness: polls made
    result,      \* what check_aliveness returned: alive, failed_reason
    report,      \* c2a.csv: the rows last written
    written,     \* number of times this invocation wrote the report
    calls,       \* the calls issued for article i so far
    allocs,      \* the ports the port search returned in this invocation
    health,      \* what containers.get found for article i, and whether
                 \* it stayed healthy at every reload since
    raised,      \* the calls that raised for article i
    freed        \* the ports below the port the last port search
                 \* returned that have been released since

\* batch_run.py
VARIABLES
    task,         \* per uuid: the metadata file (status, cost) and the
                  \* workspace and log directories
    unfed,        \* task_queue: the uuids put that the queue's feeder
                  \* thread has not yet written to the pipe
    task_queue,   \* task_queue: the uuids a get() can read
    result_queue, \* result_queue: per uuid, the results put and not yet
                  \* printed (the queue promises no order between workers)
    mpc,          \* position of batch_run.main()
    proc,         \* the process main is starting or joining
    wpc,          \* position of each worker process
    uuid_str,     \* worker: local uuid_str (0: not assigned)
    art,          \* run_datou: local article (status, cost)
    res,          \* worker: local res
    session,      \* the execution-session container of each worker
    pulled,       \* per uuid: the number of get() calls that returned it
    exitpath,     \* per worker: how run_datou went for uuid_str
    invoked       \* per uuid: times the generation engine was invoked

deploy == <<article, images, containers, extPorts, pc, i, c2a, host_port,
            container, t, polls, result, report, written, calls, allocs,
            health, raised, freed>>

pool == <<task, unfed, task_queue, result_queue, mpc, proc, wpc, uuid_str,
          art, res, session, pulled, exitpath, invoked>>

vars == <<deploy, pool>>

engine == <<images, containers>>
locals == <<host_port, container, t, polls, result>>

(* --------------------------- data values ----------------------------- *)
\* what an article's metadata file and workspace can look like
ArticleStates ==
    { [exists |-> FALSE, status |-> "init", dockerfile |-> FALSE],
      [exists |-> TRUE, status |-> "failed", dockerfile |-> TRUE],
      [exists |-> TRUE, status |-> "done", dockerfile |-> FALSE],
      [exists |-> TRUE, status |-> "done", dockerfile |-> TRUE] }

Absent == [status |-> "absent", port |-> 0, restart |-> "no", exit |-> 0, serves |-> 0]

NoContainer == [bound |-> FALSE, status |-> "absent"]

NoReason == [kind |-> "none", code |-> 0, status |-> "none"]
NoDockerfile == [kind |-> "no dockerfile found", code |-> 0, status |-> "none"]
FailedToBuildOrRun == [kind |-> "Failed to build or run", code |-> 0, status |-> "none"]
Traceback == [kind |-> "traceback", code |-> 0, status |-> "none"]
\* a bug: the reason does not carry the exit code of the container
ExitedWithZero(code) == [kind |-> "exited", code |-> 0, status |-> "exited"]
\* line 74: the reason of a container that exited
ExitedWith(code) == [kind |-> "exited", code |-> code, status |-> "exited"]
\* a bug: the reason does not carry the status last seen
TimeoutWithRunning(status) == [kind |-> "timeout", code |-> 0, status |-> "running"]
\* line 77: the reason of a timeout
TimeoutWith(status) == [kind |-> "timeout", code |-> 0, status |-> status]

NoResult == [alive |-> FALSE, reason |-> NoReason]

\* run_datou: no article is loaded (outside run_datou its local is gone)
NoArticle == [status |-> "none", cost |-> 0]

\* line 94-108: the item of an article, as appended to c2a
NewItem(u) ==
    [uuid |-> u, app_status |-> article[u].status, host_url |-> 0,
     is_auto_deployed |-> FALSE, deploy_failed_reason |-> NoReason]

Range(s) == {s[k] : k \in 1..Len(s)}

\* item is the last element of c2a
item == c2a[Len(c2a)]
\* a bug: the update goes to the first item of the list
SetFirstItem(new) == [c2a EXCEPT ![1] = new]
\* line 118, 150, 152, 158, 162: item[...] = ...
SetItem(new) == [c2a EXCEPT ![Len(c2a)] = new]

\* the engine or port call op is issued for article i (kept once, in order
\* of first issue; the reloads and probes of check_aliveness are not kept)
Log(op) ==
    calls' = IF op \in Range(calls) THEN calls ELSE Append(calls, op)

(* ------------------------- the environment --------------------------- *)
Live(c) == c.status \in {"created", "running", "restarting"}

\* the ports bound on the host: a running container's published port is
\* held by the engine's proxy
BoundPorts ==
    extPorts \cup {containers[u].port : u \in {v \in Tasks : containers[v].status = "running"}}

ExitCodes == {0, 1}

\* what a GET can give: a status code, 0 for a request error (connection
\* refused, timeout)
Http == {0, 200, 204, 500}

\* what the engine may report for the container of article u at the next
\* reload (the request takes no time in this model): the app in a running container starts answering (serves) and then
\* keeps its answer; the process may exit; under restart policy "always"
\* the engine restarts it
NextContainer(u) ==
    LET c == containers[u] IN
    CASE c.status = "running" ->
            {[c EXCEPT !.serves = h] : h \in (IF c.serves = 0 THEN Http ELSE {c.serves})}
            \cup {[c EXCEPT !.status = "exited", !.exit = e, !.serves = 0] : e \in ExitCodes}
            \cup (IF c.restart = "always"
                  THEN {[c EXCEPT !.status = "restarting", !.serves = 0]} ELSE {})
      [] c.status = "restarting" ->
            {c} \cup (IF c.port \in BoundPorts THEN {}
                      ELSE {[c EXCEPT !.status = "running"]})
      [] OTHER -> {c}

Healthy(c) == c.status = "running" /\ c.serves = 200

\* what a GET on http://localhost:port gives
ProbeOutcomes(port) ==
    LET on == {u \in Tasks : containers[u].status = "running" /\ containers[u].port = port} IN
    IF on # {} THEN {containers[u].serves : u \in on}
    ELSE IF port \in extPorts THEN Http
    ELSE {0}

(* ---------------------------- main() --------------------------------- *)
\* A container an earlier invocation (or the operator) left under the name
\* of an article, on port p: deployed and healthy; running without an
\* answer; exited; created and never started; deployed and being restarted.
Leftovers(p) ==
    { [status |-> "running", port |-> p, restart |-> "always", exit |-> 0, serves |-> 200],
      [status |-> "running", port |-> p, restart |-> "no", exit |-> 0, serves |-> 0],
      [status |-> "exited", port |-> p, restart |-> "no", exit |-> 1, serves |-> 0],
      [status |-> "created", port |-> p, restart |-> "no", exit |-> 0, serves |-> 0],
      [status |-> "restarting", port |-> p, restart |-> "always", exit |-> 0, serves |-> 0] }

\* the port the leftover of article u has: the u-th port from PortStart
LeftoverPort(u) == PortStart + ((u - 1) % NumPorts)

\* an article that main deploys
Ready(u) == article[u].exists /\ article[u].status = "done" /\ article[u].dockerfile

\* batch_run.main() is not running
PoolIdle ==
    /\ task = [u \in Ids |-> [status |-> "init", cost |-> 0, workspace |-> "none"]]
    /\ unfed = << >>
    /\ task_queue = << >>
    /\ result_queue = [u \in Ids |-> << >>]
    /\ mpc = "idle"
    /\ proc = 0
    /\ wpc = [w \in Workers |-> "unstarted"]
    /\ uuid_str = [w \in Workers |-> 0]
    /\ art = [w \in Workers |-> NoArticle]
    /\ res = [w \in Workers |-> "none"]
    /\ session = [w \in Workers |-> "none"]
    /\ pulled = [u \in Ids |-> 0]
    /\ exitpath = [w \in Workers |-> "none"]
    /\ invoked = [u \in Ids |-> 0]

\* The host when main is invoked (line 81-87): the articles on disk, the
\* images and containers earlier invocations left for the articles that
\* are deployed, the ports others hold.  A container has its image; a
\* running container holds its port alone.
Init ==
    /\ article \in [Tasks -> ArticleStates]
    /\ extPorts \in SUBSET {PortStart}
    /\ containers \in [Tasks -> {Absent} \cup UNION {Leftovers(p) : p \in Ports}]
    /\ \A u \in Tasks :
          /\ containers[u].status # "absent" =>
                Ready(u) /\ containers[u].port = LeftoverPort(u)
          /\ containers[u].status = "running" =>
                /\ containers[u].port \notin extPorts
                /\ \A v \in Tasks \ {u} :
                      containers[v].status = "running" =>
                         containers[v].port # containers[u].port
    /\ images \in SUBSET Tasks
    /\ \A u \in Tasks :
          /\ containers[u].status # "absent" => u \in images
          /\ u \in images => Ready(u)
    /\ pc = "for"
    /\ i = 1
    /\ c2a = << >>
    /\ host_port = 0
    /\ container = NoContainer
    /\ t = 0
    /\ polls = 0
    /\ result = NoResult
    /\ report = << >>
    /\ written = 0
    /\ calls = << >>
    /\ allocs = << >>
    /\ health = "none"
    /\ raised = {}
    /\ freed = {}
    /\ PoolIdle

\* the call op raises
Raise(op) == raised' = raised \cup {op}

\* the engine changes the containers: the ports that stop being bound
Release ==
    freed' = freed \cup {p \in BoundPorts \ BoundPorts' :
                            allocs # << >> /\ p < allocs[Len(allocs)]}

\* the body of the for loop is left for article i (continue, or its end)
Continue ==
    /\ pc' = "end"
    /\ UNCHANGED <<i, locals>>

\* line 88: the for loop takes the next article; the locals of the body
\* are dead until they are assigned again
NextArticle ==
    /\ pc = "end"
    /\ pc' = "for"
    /\ i' = i + 1
    /\ host_port' = 0
    /\ container' = NoContainer
    /\ t' = 0
    /\ polls' = 0
    /\ result' = NoResult
    /\ calls' = << >>
    /\ health' = "none"
    /\ raised' = {}
    /\ UNCHANGED <<article, engine, extPorts, c2a, report, written, allocs, freed>>
    /\ UNCHANGED pool

\* a bug: the exception is not caught and ends main
PropagateException ==
    /\ pc' = "uncaught"
    /\ UNCHANGED <<c2a, i, locals>>

\* line 159-162: an exception raised inside the try block is caught, the
\* item gets the reason, and the for loop goes on
HandleException ==
    /\ c2a' = SetItem([item EXCEPT !.deploy_failed_reason = FailedToBuildOrRun])
    /\ Continue

\* a bug: the missing Dockerfile is not noticed
HasDockerfileAlways(u) == TRUE

\* line 115-117: a Dockerfile is found under the workspace of article u
HasDockerfile(u) == article[u].dockerfile

\* line 89-91: no metadata file: no item, next article
ForMissing ==
    /\ pc = "for"
    /\ i <= NumTasks
    /\ ~article[i].exists
    /\ i' = i + 1
    /\ UNCHANGED <<article, engine, extPorts, pc, c2a, locals, report,
                   written, calls, allocs, health, raised, freed>>
    /\ UNCHANGED pool

\* line 92-112: the item is appended; the article is not done: next article
ForNotDone ==
    /\ pc = "for"
    /\ i <= NumTasks
    /\ article[i].exists
    /\ article[i].status # "done"
    /\ c2a' = Append(c2a, NewItem(i))
    /\ Continue
    /\ UNCHANGED <<article, engine, extPorts, report, written, calls, allocs, health, raised, freed>>
    /\ UNCHANGED pool

\* line 114-119: no Dockerfile under the workspace: reason, next article
ForNoDockerfile ==
    /\ pc = "for"
    /\ i <= NumTasks
    /\ article[i].exists
    /\ article[i].status = "done"
    /\ ~HasDockerfile(i)
    /\ c2a' = Append(c2a, [NewItem(i) EXCEPT !.deploy_failed_reason = NoDockerfile])
    /\ Continue
    /\ UNCHANGED <<article, engine, extPorts, report, written, calls, allocs, health, raised, freed>>
    /\ UNCHANGED pool

\* line 120-123: the article is deployed: the try block is entered
ForDeploy ==
    /\ pc = "for"
    /\ i <= NumTasks
    /\ article[i].exists
    /\ article[i].status = "done"
    /\ HasDockerfile(i)
    /\ c2a' = Append(c2a, NewItem(i))
    /\ pc' = "images_get"
    /\ UNCHANGED <<article, engine, extPorts, i, locals, report,
                   written, calls, allocs, health, raised, freed>>
    /\ UNCHANGED pool

\* line 164: after the loop the items are written to c2a.csv
WriteReport ==
    /\ pc = "for"
    /\ i > NumTasks
    /\ report' = c2a
    /\ written' = written + 1
    /\ pc' = "written"
    /\ UNCHANGED <<article, engine, extPorts, i, c2a, locals, calls, allocs, health, raised, freed>>
    /\ UNCHANGED pool

(* ----------------------------- the image ----------------------------- *)
\* a bug: the image is found and built again all the same
ImagesGetFoundRebuild ==
    /\ pc = "images_get"
    /\ i \in images
    /\ Log("get_image")
    /\ pc' = "docker_build"
    /\ UNCHANGED <<article, engine, extPorts, i, c2a, locals, report,
                   written, allocs, health, raised, freed>>
    /\ UNCHANGED pool

\* line 125: images.get finds the tag
ImagesGetFound ==
    /\ pc = "images_get"
    /\ i \in images
    /\ Log("get_image")
    /\ pc' = "alloc_port"
    /\ UNCHANGED <<article, engine, extPorts, i, c2a, locals, report,
                   written, allocs, health, raised, freed>>
    /\ UNCHANGED pool

\* line 126-127: images.get raises ImageNotFound
ImagesGetNotFound ==
    /\ pc = "images_get"
    /\ i \notin images
    /\ Log("get_image")
    /\ pc' = "docker_build"
    /\ UNCHANGED <<article, engine, extPorts, i, c2a, locals, report,
                   written, allocs, health, raised, freed>>
    /\ UNCHANGED pool

\* line 125: images.get raises another error
ImagesGetError ==
    /\ pc = "images_get"
    /\ Log("get_image")
    /\ Raise("get_image")
    /\ HandleException
    /\ UNCHANGED <<article, engine, extPorts, report, written, allocs, health, freed>>
    /\ UNCHANGED pool

\* line 17-18, 128: the image is built and tagged
DockerBuildOk ==
    /\ pc = "docker_build"
    /\ Log("build_image")
    /\ images' = images \cup {i}
    /\ pc' = "alloc_port"
    /\ UNCHANGED <<article, containers, extPorts, i, c2a, locals, report,
                   written, allocs, health, raised, freed>>
    /\ UNCHANGED pool

\* line 128: the build fails
DockerBuildError ==
    /\ pc = "docker_build"
    /\ Log("build_image")
    /\ Raise("build_image")
    /\ HandleException
    /\ UNCHANGED <<article, engine, extPorts, report, written, allocs, health, freed>>
    /\ UNCHANGED pool

(* ----------------------------- the port ------------------------------ *)
\* line 35-41: bind() on the port fails when the port is bound
check_port_in_use(port) == port \in BoundPorts

\* line 132-134: the first port from p on that is not in use; a port above
\* MaxPort makes bind() raise OverflowError, which check_port_in_use does
\* not catch
\* a bug: the port is taken without asking whether it is in use
FirstFreeUnchecked(p) == p

RECURSIVE FirstFree(_)
FirstFree(p) ==
    IF p > MaxPort THEN p
    ELSE IF check_port_in_use(p) THEN FirstFree(p + 1) ELSE p

\* line 132-134: a free port is found
AllocPort ==
    /\ pc = "alloc_port"
    /\ FirstFree(PortStart) <= MaxPort
    /\ Log("check_port")
    /\ host_port' = FirstFree(PortStart)
    /\ allocs' = Append(allocs, FirstFree(PortStart))
    /\ freed' = {}
    /\ pc' = "containers_get"
    /\ UNCHANGED <<article, engine, extPorts, i, c2a, container, t, polls,
                   result, report, written, health, raised>>
    /\ UNCHANGED pool

\* line 132-134: every port is in use: bind() raises on the port after the last
AllocPortOverflow ==
    /\ pc = "alloc_port"
    /\ FirstFree(PortStart) > MaxPort
    /\ Log("check_port")
    /\ Raise("check_port")
    /\ HandleException
    /\ UNCHANGED <<article, engine, extPorts, report, written, allocs, health, freed>>
    /\ UNCHANGED pool

(* --------------------------- the container --------------------------- *)
\* a bug: the container is run whether or not containers.get found one
ReuseNever(c) == FALSE

\* line 141: if container
Reuse(c) == c.bound

\* line 59, 146: check_aliveness is entered
EnterCheck ==
    /\ t' = 0
    /\ polls' = 0
    /\ result' = NoResult

\* line 74, 76, 77: check_aliveness returns not alive; its own locals are
\* gone
ReturnCheck(alive, reason) ==
    /\ result' = [alive |-> alive, reason |-> reason]
    /\ t' = 0
    /\ polls' = 0
    /\ pc' = "checked"

\* line 138, 141-142: containers.get finds the container: it is kept
ContainersGetFound ==
    /\ pc = "containers_get"
    /\ containers[i].status # "absent"
    /\ Log("get_container")
    /\ container' = [bound |-> TRUE, status |-> containers[i].status]
    /\ pc' = IF Reuse(container') THEN "ca_while" ELSE "docker_run"
    /\ EnterCheck
    /\ health' = IF Healthy(containers[i]) THEN "healthy" ELSE "unhealthy"
    /\ UNCHANGED <<article, engine, extPorts, i, c2a, host_port, report,
                   written, allocs, raised, freed>>
    /\ UNCHANGED pool

\* line 139-140, 143-144: containers.get raises NotFound
ContainersGetNotFound ==
    /\ pc = "containers_get"
    /\ containers[i].status = "absent"
    /\ Log("get_container")
    /\ container' = NoContainer
    /\ pc' = IF Reuse(container') THEN "ca_while" ELSE "docker_run"
    /\ EnterCheck
    /\ UNCHANGED <<article, engine, extPorts, i, c2a, host_port, report,
                   written, allocs, health, raised, freed>>
    /\ UNCHANGED pool

\* line 138: containers.get raises another error
ContainersGetError ==
    /\ pc = "containers_get"
    /\ Log("get_container")
    /\ Raise("get_container")
    /\ HandleException
    /\ UNCHANGED <<article, engine, extPorts, report, written, allocs, health, freed>>
    /\ UNCHANGED pool

\* line 21-32, 145: the container is created and started on host_port;
\* the handle returned holds the status read at the create: created
DockerRunOk ==
    /\ pc = "docker_run"
    /\ containers[i].status = "absent"
    /\ host_port \notin BoundPorts
    /\ Log("run_container")
    /\ containers' = [containers EXCEPT ![i] =
                        [status |-> "running", port |-> host_port,
                         restart |-> "no", exit |-> 0, serves |-> 0]]
    /\ container' = [bound |-> TRUE, status |-> "created"]
    /\ pc' = "ca_while"
    /\ EnterCheck
    /\ UNCHANGED <<article, images, extPorts, i, c2a, host_port, report,
                   written, allocs, health, raised>>
    /\ Release
    /\ UNCHANGED pool

\* line 145: containers.run raises and leaves no container (the name is
\* taken, or the create call fails)
DockerRunCreateError ==
    /\ pc = "docker_run"
    /\ Log("run_container")
    /\ Raise("run_container")
    /\ HandleException
    /\ UNCHANGED <<article, engine, extPorts, report, written, allocs, health, freed>>
    /\ UNCHANGED pool

\* line 145: containers.run creates the container and raises when it
\* starts it: the container stays, created
DockerRunStartError ==
    /\ pc = "docker_run"
    /\ containers[i].status = "absent"
    /\ Log("run_container")
    /\ containers' = [containers EXCEPT ![i] =
                        [status |-> "created", port |-> host_port,
                         restart |-> "no", exit |-> 0, serves |-> 0]]
    /\ Raise("run_container")
    /\ HandleException
    /\ UNCHANGED <<article, images, extPorts, report, written, allocs, health>>
    /\ Release
    /\ UNCHANGED pool


(* ------------------------- check_aliveness --------------------------- *)
\* a bug: no answer counts as alive
IsAliveNever(code) == FALSE

\* line 68: the response counts as alive
IsAlive(code) == code = 200

\* a leftover that was healthy stays so only while every reload finds it so
Track(c) ==
    health' = IF health = "healthy" /\ ~Healthy(c) THEN "degraded" ELSE health

\* line 60: the loop goes on while the timeout has not elapsed
CaWhile ==
    /\ pc = "ca_while"
    /\ t - 0 < Timeout
    /\ pc' = "ca_reload"
    /\ UNCHANGED <<article, engine, extPorts, i, c2a, locals, report,
                   written, calls, allocs, health, raised, freed>>
    /\ UNCHANGED pool

\* line 77: the timeout has elapsed
CaTimeout ==
    /\ pc = "ca_while"
    /\ ~(t - 0 < Timeout)
    /\ ReturnCheck(FALSE, TimeoutWith(container.status))
    /\ UNCHANGED <<article, engine, extPorts, i, c2a, host_port, container,
                   report, written, calls, allocs, health, raised, freed>>
    /\ UNCHANGED pool

\* line 62-64: sleep, reload; the status is running
CaReloadRunning ==
    /\ pc = "ca_reload"
    /\ \E c \in NextContainer(i) :
          /\ c.status = "running"
          /\ containers' = [containers EXCEPT ![i] = c]
          /\ container' = [container EXCEPT !.status = c.status]
          /\ Track(c)
    /\ t' = t + Interval
    /\ polls' = polls + 1
    /\ pc' = "ca_probe"
    /\ UNCHANGED <<article, images, extPorts, i, c2a, host_port, result,
                   report, written, calls, allocs, raised>>
    /\ Release
    /\ UNCHANGED pool

\* line 62-63, 73-74: sleep, reload; the status is exited
CaReloadExited ==
    /\ pc = "ca_reload"
    /\ \E c \in NextContainer(i) :
          /\ c.status = "exited"
          /\ containers' = [containers EXCEPT ![i] = c]
          /\ container' = [container EXCEPT !.status = c.status]
          /\ ReturnCheck(FALSE, ExitedWith(c.exit))
          /\ Track(c)
    /\ UNCHANGED <<article, images, extPorts, i, c2a, host_port, report,
                   written, calls, allocs, raised>>
    /\ Release
    /\ UNCHANGED pool

\* line 62-64, 73: sleep, reload; the status is neither: the loop goes on
CaReloadOther ==
    /\ pc = "ca_reload"
    /\ \E c \in NextContainer(i) :
          /\ c.status \notin {"running", "exited"}
          /\ containers' = [containers EXCEPT ![i] = c]
          /\ container' = [container EXCEPT !.status = c.status]
          /\ Track(c)
    /\ t' = t + Interval
    /\ polls' = polls + 1
    /\ pc' = "ca_while"
    /\ UNCHANGED <<article, images, extPorts, i, c2a, host_port, result,
                   report, written, calls, allocs, raised>>
    /\ Release
    /\ UNCHANGED pool

\* line 63, 75-76: reload raises: the traceback is the reason
CaReloadError ==
    /\ pc = "ca_reload"
    /\ Raise("reload")
    /\ ReturnCheck(FALSE, Traceback)
    /\ UNCHANGED <<article, engine, extPorts, i, c2a, host_port, container,
                   report, written, calls, allocs, health, freed>>
    /\ UNCHANGED pool

\* line 66-69: the GET on host_port is answered and counts as alive;
\* t and polls stay at the time and the poll of this return
CaProbeAlive ==
    /\ pc = "ca_probe"
    /\ \E code \in ProbeOutcomes(host_port) : IsAlive(code)
    /\ result' = [alive |-> TRUE, reason |-> NoReason]
    /\ pc' = "checked"
    /\ UNCHANGED <<article, engine, extPorts, i, c2a, host_port, container,
                   t, polls, report, written, calls, allocs, health, raised, freed>>
    /\ UNCHANGED pool

\* a bug: the clock is started again after a probe that failed
CaProbeRetryRestart ==
    /\ pc = "ca_probe"
    /\ \E code \in ProbeOutcomes(host_port) : ~IsAlive(code)
    /\ pc' = "ca_while"
    /\ t' = 0
    /\ UNCHANGED <<article, engine, extPorts, i, c2a, host_port, container,
                   polls, result, report, written, calls, allocs, health, raised, freed>>
    /\ UNCHANGED pool

\* line 66-72: the GET raises, raise_for_status raises, or the status is
\* not the one that counts: the loop goes on
CaProbeRetry ==
    /\ pc = "ca_probe"
    /\ \E code \in ProbeOutcomes(host_port) : ~IsAlive(code)
    /\ pc' = "ca_while"
    /\ UNCHANGED <<article, engine, extPorts, i, c2a, host_port, container,
                   t, polls, result, report, written, calls, allocs, health, raised, freed>>
    /\ UNCHANGED pool

(* ----------------------- after check_aliveness ----------------------- *)
\* a bug: the restart policy is set whatever check_aliveness returned
IfAliveAlways(r) == TRUE

\* line 147: if alive
IfAlive(r) == r.alive

\* line 147-150, 158: alive: the restart policy is set, the item is deployed
UpdateOk ==
    /\ pc = "checked"
    /\ IfAlive(result)
    /\ Log("update")
    /\ containers' = [containers EXCEPT ![i].restart = "always"]
    /\ c2a' = SetItem([item EXCEPT !.host_url = host_port,
                                   !.is_auto_deployed = result.alive])
    /\ Continue
    /\ UNCHANGED <<article, images, extPorts, report, written, allocs, health, raised>>
    /\ Release
    /\ UNCHANGED pool

\* line 149: update raises
UpdateError ==
    /\ pc = "checked"
    /\ IfAlive(result)
    /\ Log("update")
    /\ Raise("update")
    /\ HandleException
    /\ UNCHANGED <<article, engine, extPorts, report, written, allocs, health, freed>>
    /\ UNCHANGED pool

\* line 151-154: not alive: the reason is kept, the container is stopped
StopOk ==
    /\ pc = "checked"
    /\ ~IfAlive(result)
    /\ Log("stop")
    /\ c2a' = SetItem([item EXCEPT !.deploy_failed_reason = result.reason])
    /\ containers' = [containers EXCEPT ![i] =
                        IF @.status \in {"running", "restarting"}
                        THEN [@ EXCEPT !.status = "exited", !.serves = 0]
                        ELSE @]
    /\ pc' = "remove"
    /\ UNCHANGED <<article, images, extPorts, i, locals, report, written,
                   allocs, health, raised>>
    /\ Release
    /\ UNCHANGED pool

\* line 154: stop raises
StopError ==
    /\ pc = "checked"
    /\ ~IfAlive(result)
    /\ Log("stop")
    /\ Raise("stop")
    /\ HandleException
    /\ UNCHANGED <<article, engine, extPorts, report, written, allocs, health, freed>>
    /\ UNCHANGED pool

\* line 155-158: the container is removed, the item is not deployed
RemoveOk ==
    /\ pc = "remove"
    /\ Log("remove")
    /\ containers' = [containers EXCEPT ![i] = Absent]
    /\ c2a' = SetItem([item EXCEPT !.is_auto_deployed = result.alive])
    /\ Continue
    /\ UNCHANGED <<article, images, extPorts, report, written, allocs, health, raised>>
    /\ Release
    /\ UNCHANGED pool

\* line 155: remove raises
RemoveError ==
    /\ pc = "remove"
    /\ Log("remove")
    /\ Raise("remove")
    /\ HandleException
    /\ UNCHANGED <<article, engine, extPorts, report, written, allocs, health, freed>>
    /\ UNCHANGED pool

Next ==
    \/ ForMissing
    \/ ForNotDone
    \/ ForNoDockerfile
    \/ ForDeploy
    \/ WriteReport
    \/ NextArticle
    \/ ImagesGetFound
    \/ ImagesGetNotFound
    \/ ImagesGetError
    \/ DockerBuildOk
    \/ DockerBuildError
    \/ AllocPort
    \/ AllocPortOverflow
    \/ ContainersGetFound
    \/ ContainersGetNotFound
    \/ ContainersGetError
    \/ DockerRunOk
    \/ DockerRunCreateError
    \/ DockerRunStartError
    \/ CaWhile
    \/ CaTimeout
    \/ CaReloadRunning
    \/ CaReloadExited
    \/ CaReloadOther
    \/ CaReloadError
    \/ CaProbeAlive
    \/ CaProbeRetry
    \/ UpdateOk
    \/ UpdateError
    \/ StopOk
    \/ StopError
    \/ RemoveOk
    \/ RemoveError

Spec == Init /\ [][Next]_vars


(* ====================== batch_run.py: the pool ======================== *)
\* batch_deploy.main() is not running
DeployIdle ==
    /\ article = [u \in Tasks |-> [exists |-> FALSE, status |-> "init", dockerfile |-> FALSE]]
    /\ images = {}
    /\ containers = [u \in Tasks |-> Absent]
    /\ extPorts = {}
    /\ pc = "idle"
    /\ i = 0
    /\ c2a = << >>
    /\ host_port = 0
    /\ container = NoContainer
    /\ t = 0
    /\ polls = 0
    /\ result = NoResult
    /\ report = << >>
    /\ written = 0
    /\ calls = << >>
    /\ allocs = << >>
    /\ health = "none"
    /\ raised = {}
    /\ freed = {}

\* What main finds or creates for an article (line 133-135): a new metadata
\* file; one an earlier run left at running (it did not get to the end),
\* failed or done, with the workspace and the cost of that run.
TaskStates ==
    { [status |-> "init", cost |-> 0, workspace |-> "none"],
      [status |-> "running", cost |-> 0, workspace |-> "old"],
      [status |-> "failed", cost |-> 1, workspace |-> "old"],
      [status |-> "done", cost |-> 1, workspace |-> "old"] }

\* line 118-137: main has put the uuids of the n articles on task_queue
\* (uuids are unique keys); the queue's feeder thread writes them to the
\* pipe in its own time
InitPool ==
    /\ DeployIdle
    /\ \E n \in 0..NumIds :
          /\ unfed = [k \in 1..n |-> k]
          /\ task \in [Ids -> TaskStates]
          /\ \A u \in Ids : u > n => task[u].status = "init"
    /\ task_queue = << >>
    /\ result_queue = [u \in Ids |-> << >>]
    /\ mpc = "start"
    /\ proc = 1
    /\ wpc = [w \in Workers |-> "unstarted"]
    /\ uuid_str = [w \in Workers |-> 0]
    /\ art = [w \in Workers |-> NoArticle]
    /\ res = [w \in Workers |-> "none"]
    /\ session = [w \in Workers |-> "none"]
    /\ pulled = [u \in Ids |-> 0]
    /\ exitpath = [w \in Workers |-> "none"]
    /\ invoked = [u \in Ids |-> 0]

main_vars == <<mpc, proc>>
queues == <<unfed, task_queue, result_queue>>
run_vars == <<task, art, session, invoked>>

\* multiprocessing.Queue: the feeder thread of the process that put the
\* uuids writes the next one to the pipe, where empty() and get() see it
Feed ==
    /\ unfed # << >>
    /\ task_queue' = Append(task_queue, Head(unfed))
    /\ unfed' = Tail(unfed)
    /\ UNCHANGED <<result_queue, main_vars, wpc, uuid_str, res, run_vars,
                   pulled, exitpath>>
    /\ UNCHANGED deploy

\* line 139-142: main starts the next worker process
MainStart ==
    /\ mpc = "start"
    /\ wpc' = [wpc EXCEPT ![proc] = "while"]
    /\ mpc' = IF proc = NumWorkers THEN "join" ELSE "start"
    /\ proc' = IF proc = NumWorkers THEN 1 ELSE proc + 1
    /\ UNCHANGED <<queues, uuid_str, res, run_vars, pulled, exitpath>>
    /\ UNCHANGED deploy

\* line 144-145: join returns once the process has exited
MainJoin ==
    /\ mpc = "join"
    /\ wpc[proc] = "exited"
    /\ mpc' = IF proc = NumWorkers THEN "drain" ELSE "join"
    /\ proc' = IF proc = NumWorkers THEN proc ELSE proc + 1
    /\ UNCHANGED <<queues, wpc, uuid_str, res, run_vars, pulled, exitpath>>
    /\ UNCHANGED deploy

\* the result queue holds a result
Results == {u \in Ids : result_queue[u] # << >>}

\* line 147-149: main prints the next result
MainDrain ==
    /\ mpc = "drain"
    /\ Results # {}
    /\ LET u == CHOOSE v \in Results : \A x \in Results : v <= x
       IN result_queue' = [result_queue EXCEPT ![u] = Tail(@)]
    /\ UNCHANGED <<unfed, task_queue, main_vars, wpc, uuid_str, res,
                   run_vars, pulled, exitpath>>
    /\ UNCHANGED deploy

\* line 147: the result queue is empty: main returns
MainReturn ==
    /\ mpc = "drain"
    /\ Results = {}
    /\ mpc' = "done"
    /\ UNCHANGED <<queues, proc, wpc, uuid_str, res, run_vars, pulled, exitpath>>
    /\ UNCHANGED deploy

(* ----------------------------- worker -------------------------------- *)
\* a bug: the exception is not caught and ends the worker process
WorkerPropagate(w) ==
    /\ res' = [res EXCEPT ![w] = "none"]
    /\ wpc' = [wpc EXCEPT ![w] = "crashed"]
    /\ art' = [art EXCEPT ![w] = NoArticle]

\* line 107-109: an exception raised by run_datou is caught: the result is
\* the traceback
WorkerExcept(w) ==
    /\ res' = [res EXCEPT ![w] = "traceback"]
    /\ wpc' = [wpc EXCEPT ![w] = "put"]
    /\ art' = [art EXCEPT ![w] = NoArticle]

\* line 105-106: run_datou returned
WorkerReturned(w) ==
    /\ res' = [res EXCEPT ![w] = "success"]
    /\ wpc' = [wpc EXCEPT ![w] = "put"]
    /\ art' = [art EXCEPT ![w] = NoArticle]

\* line 111, 101: the worker is through with uuid_str; what it holds of
\* it is dead until the next get
Forget(w) ==
    /\ uuid_str' = [uuid_str EXCEPT ![w] = 0]
    /\ res' = [res EXCEPT ![w] = "none"]
    /\ session' = [session EXCEPT ![w] = "none"]
    /\ exitpath' = [exitpath EXCEPT ![w] = "none"]

\* line 101: the queue is seen empty: the worker ends
WkWhileEmpty(w) ==
    /\ wpc[w] = "while"
    /\ task_queue = << >>
    /\ wpc' = [wpc EXCEPT ![w] = "exited"]
    /\ UNCHANGED <<queues, main_vars, uuid_str, res, run_vars, pulled, exitpath>>
    /\ UNCHANGED deploy

\* line 101: the queue is seen not empty
WkWhileNotEmpty(w) ==
    /\ wpc[w] = "while"
    /\ task_queue # << >>
    /\ wpc' = [wpc EXCEPT ![w] = "get"]
    /\ UNCHANGED <<queues, main_vars, uuid_str, res, run_vars, pulled, exitpath>>
    /\ UNCHANGED deploy

\* a bug: the uuid is read and left on the queue
WkGetPeek(w) ==
    /\ wpc[w] = "get"
    /\ task_queue # << >>
    /\ uuid_str' = [uuid_str EXCEPT ![w] = Head(task_queue)]
    /\ wpc' = [wpc EXCEPT ![w] = "load"]
    /\ pulled' = [pulled EXCEPT ![Head(task_queue)] = @ + 1]
    /\ UNCHANGED <<queues, main_vars, res, run_vars, exitpath>>
    /\ UNCHANGED deploy

\* line 102-103: get() blocks until the queue holds a uuid and takes it
WkGet(w) ==
    /\ wpc[w] = "get"
    /\ task_queue # << >>
    /\ uuid_str' = [uuid_str EXCEPT ![w] = Head(task_queue)]
    /\ task_queue' = Tail(task_queue)
    /\ wpc' = [wpc EXCEPT ![w] = "load"]
    /\ pulled' = [pulled EXCEPT ![Head(task_queue)] = @ + 1]
    /\ UNCHANGED <<unfed, result_queue, main_vars, res, run_vars, exitpath>>
    /\ UNCHANGED deploy

\* line 110-111: the result is put; back to the head of the loop
WkPut(w) ==
    /\ wpc[w] = "put"
    /\ result_queue' = [result_queue EXCEPT ![uuid_str[w]] = Append(@, res[w])]
    /\ wpc' = [wpc EXCEPT ![w] = "while"]
    /\ Forget(w)
    /\ UNCHANGED <<unfed, task_queue, main_vars, task, art, invoked, pulled>>
    /\ UNCHANGED deploy

(* ---------------------------- run_datou ------------------------------ *)
\* a bug: a task that is done is run again
IsDoneNever(a) == FALSE

\* line 33: the status of the article is done
IsDone(a) == a.status = "done"

\* run_datou is left on the path named
Exit(w, path) == exitpath' = [exitpath EXCEPT ![w] = path]

\* line 28-29: the metadata file cannot be read
RdLoadError(w) ==
    /\ wpc[w] = "load"
    /\ Exit(w, "load_raised")
    /\ WorkerExcept(w)
    /\ UNCHANGED <<queues, main_vars, uuid_str, task, session, invoked, pulled>>
    /\ UNCHANGED deploy

\* line 28-35: the article is done: skipped
RdSkip(w) ==
    /\ wpc[w] = "load"
    /\ IsDone(task[uuid_str[w]])
    /\ Exit(w, "skipped")
    /\ WorkerReturned(w)
    /\ UNCHANGED <<queues, main_vars, uuid_str, task, session, invoked, pulled>>
    /\ UNCHANGED deploy

\* line 28-55: the article is loaded and is not done: the workspace and
\* the logs are cleaned, the status running is set and the article is
\* persisted
RdMarkRunning(w) ==
    /\ wpc[w] = "load"
    /\ ~IsDone(task[uuid_str[w]])
    /\ art' = [art EXCEPT ![w] = [status |-> "running",
                                  cost |-> task[uuid_str[w]].cost]]
    /\ task' = [task EXCEPT ![uuid_str[w]].status = "running",
                            ![uuid_str[w]].workspace = "clean"]
    /\ wpc' = [wpc EXCEPT ![w] = "setup"]
    /\ UNCHANGED <<queues, main_vars, uuid_str, res, session, invoked,
                   pulled, exitpath>>
    /\ UNCHANGED deploy

\* line 57-71: the engine is imported, the log handlers are added, the
\* configuration is read and the session id generated
RdSetup(w) ==
    /\ wpc[w] = "setup"
    /\ wpc' = [wpc EXCEPT ![w] = "engine"]
    /\ UNCHANGED <<queues, main_vars, uuid_str, res, run_vars, pulled, exitpath>>
    /\ UNCHANGED deploy

\* line 57-71: one of these raises (the configuration names no such llm
\* section, a log file cannot be opened): the statements are outside the
\* try block, so the exception leaves run_datou
RdSetupError(w) ==
    /\ wpc[w] = "setup"
    /\ Exit(w, "setup_raised")
    /\ WorkerExcept(w)
    /\ UNCHANGED <<queues, main_vars, uuid_str, task, session, invoked, pulled>>
    /\ UNCHANGED deploy

\* the engine is invoked for the article of worker w: it starts the
\* session container and writes to the workspace
Invoke(w) ==
    /\ invoked' = [invoked EXCEPT ![uuid_str[w]] = @ + 1]
    /\ task' = [task EXCEPT ![uuid_str[w]].workspace = "new"]
    /\ wpc' = [wpc EXCEPT ![w] = "finally"]
    /\ UNCHANGED <<queues, main_vars, uuid_str, res, pulled>>
    /\ UNCHANGED deploy

\* line 73-88: the engine returns in the finished state
RdEngineFinished(w) ==
    /\ wpc[w] = "engine"
    /\ Invoke(w)
    /\ session' = [session EXCEPT ![w] = "up"]
    /\ art' = [art EXCEPT ![w] = [status |-> "done", cost |-> 2]]
    /\ Exit(w, "finished")

\* line 73-87, 89-91: the engine returns in another state
RdEngineNotFinished(w) ==
    /\ wpc[w] = "engine"
    /\ Invoke(w)
    /\ session' = [session EXCEPT ![w] = "up"]
    /\ art' = [art EXCEPT ![w] = [status |-> "failed", cost |-> 2]]
    /\ Exit(w, "unfinished")

\* line 73-80, 89-91: the engine raises, its session container started
RdEngineRaises(w) ==
    /\ wpc[w] = "engine"
    /\ Invoke(w)
    /\ session' = [session EXCEPT ![w] = "up"]
    /\ art' = [art EXCEPT ![w].status = "failed"]
    /\ Exit(w, "raised")

\* line 92-97: the handlers are removed, the session container is removed,
\* the article is persisted
RdFinally(w) ==
    /\ wpc[w] = "finally"
    /\ session' = [session EXCEPT ![w] = "removed"]
    /\ task' = [task EXCEPT ![uuid_str[w]].status = art[w].status,
                            ![uuid_str[w]].cost = art[w].cost]
    /\ WorkerReturned(w)
    /\ UNCHANGED <<queues, main_vars, uuid_str, invoked, pulled, exitpath>>
    /\ UNCHANGED deploy

\* line 92-97: the session container is removed and writing the article
\* raises
RdFinallyError(w) ==
    /\ wpc[w] = "finally"
    /\ session' = [session EXCEPT ![w] = "removed"]
    /\ Exit(w, "persist_raised")
    /\ WorkerExcept(w)
    /\ UNCHANGED <<queues, main_vars, uuid_str, task, invoked, pulled>>
    /\ UNCHANGED deploy

NextPool ==
    \/ Feed
    \/ MainStart
    \/ MainJoin
    \/ MainDrain
    \/ MainReturn
    \/ \E w \in Workers : WkWhileEmpty(w)
    \/ \E w \in Workers : WkWhileNotEmpty(w)
    \/ \E w \in Workers : WkGet(w)
    \/ \E w \in Workers : WkPut(w)
    \/ \E w \in Workers : RdLoadError(w)
    \/ \E w \in Workers : RdSkip(w)
    \/ \E w \in Workers : RdMarkRunning(w)
    \/ \E w \in Workers : RdSetup(w)
    \/ \E w \in Workers : RdSetupError(w)
    \/ \E w \in Workers : RdEngineFinished(w)
    \/ \E w \in Workers : RdEngineNotFinished(w)
    \/ \E w \in Workers : RdEngineRaises(w)
    \/ \E w \in Workers : RdFinally(w)
    \/ \E w \in Workers : RdFinallyError(w)

SpecPool == InitPool /\ [][NextPool]_vars


(* ============================ properties ============================== *)
Called(op) == op \in Range(calls)

\* op a was first issued before op b for article i
Before(a, b) ==
    \E j, k \in 1..Len(calls) : j < k /\ calls[j] = a /\ calls[k] = b

\* the body of the loop is over for article i, which has an item
Ended == pc = "end" /\ c2a # << >> /\ item.uuid = i

\* C1: run-container is issued for the name of an article only after
\* get-container reported that no container has that name, and only while
\* the engine holds none under it; the call touches no other container.
\* (The engine keeps one container per name; what the orchestrator owes
\* is never to run on a name that is taken.)
C1_RunOnlyWhenAbsent ==
    [][ (~Called("run_container") /\ Called("run_container")')
          => /\ Called("get_container")
             /\ ~container.bound
             /\ containers[i].status = "absent"
             /\ \A u \in Tasks \ {i} : containers'[u] = containers[u] ]_vars

\* a container was run for article i while another article keeps its own
C1_Witness ==
    /\ pc = "ca_while"
    /\ Called("run_container")
    /\ Live(containers[i])
    /\ \E u \in Tasks \ {i} : Live(containers[u])

\* C2: when the container of an article exists, is running and answers
\* the probe with 200 when main gets it and at every reload after, and no
\* engine call raises, then the article ends deployed with its container
\* still live, and neither build-image nor run-container was issued.
C2_Idempotent ==
    (Ended /\ health = "healthy" /\ raised = {})
       => /\ item.is_auto_deployed
          /\ Live(containers[i])
          /\ ~Called("build_image")
          /\ ~Called("run_container")

\* C3: when the container of an article exists and is not healthy when
\* main gets it, and no engine call raises, then by the end of the
\* article it was removed and after that a new one was run under the name.
C3_ReplaceUnhealthy ==
    (Ended /\ health = "unhealthy" /\ raised = {})
       => /\ Before("stop", "remove")
          /\ Before("remove", "run_container")
          /\ Live(containers[i])

\* C4: an article that is done and has no Dockerfile gets an item with a
\* reason and not deployed, and while the loop is at it no call is issued
\* and the body is never entered past the Dockerfile test.
C4_NoDockerfile ==
    /\ \A k \in 1..Len(c2a) :
          LET u == c2a[k].uuid IN
          (article[u].status = "done" /\ ~article[u].dockerfile)
             => /\ c2a[k].deploy_failed_reason # NoReason
                /\ c2a[k].deploy_failed_reason.kind = "no dockerfile found"
                /\ ~c2a[k].is_auto_deployed
                /\ c2a[k].host_url = 0
    /\ (i \in Tasks /\ article[i].exists /\ article[i].status = "done"
          /\ ~article[i].dockerfile)
          => /\ pc \in {"for", "end"}
             /\ calls = << >>

\* the loop has passed an article that is done and has no Dockerfile
C4_Witness ==
    /\ Ended
    /\ article[i].status = "done"
    /\ ~article[i].dockerfile
    /\ item.deploy_failed_reason = NoDockerfile


\* every position main can be at
PcValues ==
    {"for", "end", "images_get", "docker_build", "alloc_port", "containers_get",
     "docker_run", "ca_while", "ca_reload", "ca_probe", "checked", "remove",
     "written"}

\* the articles that have a metadata file, in the order of the batch
RECURSIVE Existing(_)
Existing(n) ==
    IF n = 0 THEN << >>
    ELSE IF article[n].exists THEN Append(Existing(n - 1), n) ELSE Existing(n - 1)

\* C5: an engine call that raises while article i is processed never ends
\* main: the item of article i gets a reason and stays not deployed, the
\* loop is never stuck before the report is written, and the report holds
\* one row per article that has a metadata file, each deployable article
\* with an outcome (deployed, or a reason).
C5_FailureIsolation ==
    /\ pc \in PcValues
    /\ (Ended /\ raised # {})
          => /\ item.deploy_failed_reason # NoReason
             /\ ~item.is_auto_deployed
    /\ pc # "written" => ENABLED Next
    /\ pc = "written"
          => /\ i = NumTasks + 1
             /\ report = c2a
             /\ [k \in 1..Len(report) |-> report[k].uuid] = Existing(NumTasks)
             /\ \A k \in 1..Len(report) :
                   Ready(report[k].uuid)
                      => \/ report[k].is_auto_deployed
                         \/ report[k].deploy_failed_reason # NoReason

\* the first article failed on an engine call, the second one was deployed,
\* and the report is written
C5_Witness ==
    /\ pc = "written"
    /\ Len(report) = NumTasks
    /\ report[1].deploy_failed_reason = FailedToBuildOrRun
    /\ report[2].is_auto_deployed

\* check_aliveness is polling
Polling == pc \in {"ca_while", "ca_reload", "ca_probe"}

\* C6: at a poll whose reload finds the container exited, check_aliveness
\* returns at once, not alive, with a reason that carries the exit code of
\* the container; main then issues stop and remove, and when neither
\* raises no container is left under the name and the item carries the
\* reason and is not deployed.
C6_ExitedShortCircuit ==
    /\ [][ (pc = "ca_reload" /\ "reload" \notin raised' /\ container'.status = "exited")
             => /\ pc' = "checked"
                /\ ~result'.alive
                /\ result'.reason.kind = "exited"
                /\ result'.reason.code = containers'[i].exit ]_vars
    /\ [][ (pc = "checked" /\ result.reason.kind = "exited") => Called("stop")' ]_vars
    /\ []( (Ended /\ result.reason.kind = "exited" /\ raised = {})
             => /\ Before("stop", "remove")
                /\ containers[i].status = "absent"
                /\ item.deploy_failed_reason = result.reason
                /\ ~item.is_auto_deployed )

\* a container run by this invocation exited with code 1 and was removed
C6_Witness ==
    /\ Ended
    /\ Called("run_container")
    /\ result.reason.kind = "exited"
    /\ result.reason.code = 1
    /\ containers[i].status = "absent"

\* C7: polling goes on while the timeout has not elapsed; a request error
\* or a non-2xx answer to the probe is swallowed; polling ends not alive
\* only on an exited container, on a reload that raises, or, once the
\* timeout has elapsed, with the timeout reason, which names the status
\* last seen; main then issues stop and remove, and when neither raises no
\* container is left under the name.
C7_Timeout ==
    /\ [][ (pc = "ca_while" /\ t < Timeout) => pc' = "ca_reload" ]_vars
    /\ [][ (pc = "ca_while" /\ ~(t < Timeout))
             => /\ pc' = "checked"
                /\ ~result'.alive
                /\ result'.reason.kind = "timeout"
                /\ result'.reason.status = container.status ]_vars
    /\ [][ (pc = "ca_probe" /\ ProbeOutcomes(host_port) \subseteq {0, 500})
             => (pc' = "ca_while" /\ result' = result) ]_vars
    /\ [][ (Polling /\ pc' = "checked" /\ ~result'.alive)
             => \/ result'.reason.kind = "exited" /\ container'.status = "exited"
                \/ result'.reason.kind = "traceback" /\ "reload" \in raised'
                \/ result'.reason.kind = "timeout" /\ t >= Timeout ]_vars
    /\ [][ (pc = "checked" /\ result.reason.kind = "timeout") => Called("stop")' ]_vars
    /\ []( Polling => (polls > 0 => container.status = containers[i].status) )
    /\ []( (Ended /\ result.reason.kind = "timeout" /\ raised = {})
             => /\ Before("stop", "remove")
                /\ containers[i].status = "absent"
                /\ item.deploy_failed_reason = result.reason
                /\ ~item.is_auto_deployed )

\* a container run by this invocation stayed running without the probe
\* ever counting, timed out and was removed
C7_Witness ==
    /\ Ended
    /\ Called("run_container")
    /\ result.reason.kind = "timeout"
    /\ result.reason.status = "running"
    /\ containers[i].status = "absent"

\* C8: at a poll where the container is running and the GET on host_port
\* is answered with a 2xx status, check_aliveness returns alive.
C8_Any2xxIsHealthy ==
    [][ (pc = "ca_probe" /\ \A code \in ProbeOutcomes(host_port) : code \in 200..299)
          => (pc' = "checked" /\ result'.alive) ]_vars

\* the calls whose failure can leave a container behind
ContainerCalls == {"run_container", "update", "stop", "remove"}

\* what both readings of C9 share: update is issued exactly when
\* check_aliveness returned alive, a failed check is followed by stop, an
\* item is deployed only with a live container under restart policy
\* "always", and main never touches the container of another article
RestartFollowsHealth ==
    /\ [][ (~Called("update") /\ Called("update")') => (pc = "checked" /\ result.alive) ]_vars
    /\ [][ (pc = "checked" /\ result.alive) => Called("update")' ]_vars
    /\ [][ (pc = "checked" /\ ~result.alive) => (Called("stop")' /\ ~Called("update")') ]_vars
    /\ [][ \A u \in Tasks \ {i} : containers'[u] = containers[u] ]_vars
    /\ []( \A k \in 1..Len(c2a) :
             c2a[k].is_auto_deployed
                => /\ containers[c2a[k].uuid].status = "running"
                   /\ containers[c2a[k].uuid].restart = "always" )

\* main got hold of a container for article i: containers.get found one,
\* or run-container was issued
Held == container.bound \/ Called("run_container")

FirstFreeReturned ==
    pc = "containers_get"
       => /\ host_port = allocs[Len(allocs)]
          /\ host_port \in Ports
          /\ host_port \notin BoundPorts
          /\ \A p \in PortStart..(host_port - 1) : p \in BoundPorts

\* C10 as stated: every returned port is the first free one, and the
\* ports returned in one invocation never decrease.
C10_Monotonic ==
    /\ FirstFreeReturned
    /\ \A j, k \in 1..Len(allocs) : j < k => allocs[j] <= allocs[k]

\* C10, amended: every returned port is the first free one, and a port
\* search returns a port below the one before it only if a port that was
\* bound at that earlier search has been released since.
C10_FirstFree ==
    /\ []FirstFreeReturned
    /\ [][ (Len(allocs') = Len(allocs) + 1 /\ allocs # << >> /\ freed = {})
             => allocs'[Len(allocs')] >= allocs[Len(allocs)] ]_vars

\* two searches in one invocation, nothing released in between, the first
\* port taken by the container of the first article
C10_Witness ==
    /\ pc = "containers_get"
    /\ Len(allocs) = 2
    /\ allocs[2] > allocs[1]

\* C15: build-image is issued for the tag of an article only after
\* get-image was issued for it and found no image under the tag, and never
\* twice for one article; a build that does not raise leaves the image
\* under the tag, so that an invocation that finds it (Init holds the
\* images earlier invocations built) goes on to the port search without
\* building.
C15_ImageReuse ==
    /\ pc = "docker_build"
          => /\ i \notin images
             /\ Called("get_image")
             /\ ~Called("build_image")
    /\ Called("build_image") => Before("get_image", "build_image")
    /\ (Called("build_image") /\ "build_image" \notin raised) => i \in images
    /\ pc \in {"alloc_port", "containers_get", "docker_run", "ca_while",
               "ca_reload", "ca_probe", "checked", "remove"} => i \in images

\* an article whose image an earlier invocation built is deployed without
\* a build
C15_Witness ==
    /\ Ended
    /\ item.is_auto_deployed
    /\ Called("get_image")
    /\ ~Called("build_image")
    /\ i \in images

\* the uuids of the items of c2a, in order
Uuids == [k \in 1..Len(c2a) |-> c2a[k].uuid]

\* C16: c2a holds exactly one item per article with a metadata file that
\* the loop has reached, in the order of the batch, not-done articles
\* included; the item of an article is not changed once the loop has left
\* the article; the report is written once, after the last article, with
\* all the items, and nothing is written before.
C16_ResultRecording ==
    /\ []( Uuids = Existing(IF pc \in {"for", "written"} THEN i - 1 ELSE i) )
    /\ []( /\ written = (IF pc = "written" THEN 1 ELSE 0)
           /\ pc # "written" => report = << >>
           /\ pc = "written" => (i = NumTasks + 1 /\ report = c2a) )
    /\ [][ \A k \in 1..Len(c2a) :
              (c2a[k].uuid # i \/ pc \in {"for", "end", "written"})
                 => (Len(c2a') >= k /\ c2a'[k] = c2a[k]) ]_vars

\* the report is written with the item of an article that is not done and
\* the item of one that was deployed after it
C16_Witness ==
    /\ pc = "written"
    /\ written = 1
    /\ Len(report) = NumTasks
    /\ report[1].app_status = "failed"
    /\ report[1].deploy_failed_reason = NoReason
    /\ report[2].is_auto_deployed

\* C18: with interval 3 and timeout 20, for a container that main has
\* run (its handle says created), that the reload of the first poll finds
\* running and whose first probe fails: when the probe of the second poll
\* is answered 200, check_aliveness returns alive at that poll, 6 seconds
\* of sleep after its start and so before t = 9, whatever the first poll
\* gave; main then issues update, and the item is recorded as deployed
\* only with the restart policy set to always (an update that raises
\* leaves the item not deployed).
C18_BoundedResponse ==
    /\ [][ (pc = "ca_probe" /\ polls = 2 /\ Called("run_container")
              /\ ProbeOutcomes(host_port) = {200})
             => /\ pc' = "checked"
                /\ result' = [alive |-> TRUE, reason |-> NoReason]
                /\ t' = 2 * Interval
                /\ t' <= 9 ]_vars
    /\ []( (pc = "checked" /\ result.alive) => (polls >= 1 /\ t = polls * Interval) )
    /\ [][ (pc = "checked" /\ result.alive)
             => /\ Called("update")'
                /\ pc' = "end"
                /\ item'.is_auto_deployed <=> "update" \notin raised'
                /\ item'.is_auto_deployed
                      => /\ containers'[i].restart = "always"
                         /\ item'.host_url = host_port ]_vars

\* the container main ran was found running at the first poll, its first
\* probe failed, the second was answered 200 at t = 6, and the article
\* ended deployed under restart policy always
C18_Witness ==
    /\ Ended
    /\ Called("run_container")
    /\ polls = 2
    /\ t = 6
    /\ result.alive
    /\ item.is_auto_deployed
    /\ containers[i].status = "running"
    /\ containers[i].serves = 200
    /\ containers[i].restart = "always"

\* ceil(T / I): the polls that start before the timeout has elapsed
MaxPolls == (Timeout + Interval - 1) \div Interval

\* what C20 and its amendment share: while check_aliveness polls, the
\* time slept is the interval times the polls made, a poll starts only
\* while that time is below the timeout, so at most ceil(T / I) polls are
\* made; polling is never stuck; it ends alive only on a probe that
\* counts, with exited only on a container seen exited, with timeout only
\* once the timeout has elapsed; and what it returned stays as it is
\* while the article is finished.
PollsBounded ==
    /\ []( Polling
             => /\ t = polls * Interval
                /\ polls <= MaxPolls
                /\ pc = "ca_reload" => t < Timeout
                /\ ENABLED Next )
    /\ [][ (pc = "ca_while" /\ t >= Timeout)
             => (pc' = "checked" /\ result'.reason.kind = "timeout") ]_vars
    /\ [][ (Polling /\ pc' = "checked")
             => \/ result'.alive /\ result'.reason = NoReason /\ pc = "ca_probe"
                \/ ~result'.alive /\ result'.reason.kind = "exited"
                      /\ containers'[i].status = "exited"
                \/ ~result'.alive /\ result'.reason.kind = "timeout" /\ t >= Timeout
                \/ ~result'.alive /\ result'.reason.kind = "traceback"
                      /\ "reload" \in raised' ]_vars
    /\ [][ (pc \in {"checked", "remove"}) => (result' = result /\ ~Polling') ]_vars

\* C20 as stated: and check_aliveness ends in one of healthy, exited and
\* timed-out, also when a reload raises.
C20_ThreeTerminals ==
    /\ PollsBounded
    /\ []( pc = "checked" => (result.alive \/ result.reason.kind \in {"exited", "timeout"}) )

\* C20, amended: and check_aliveness ends in one of healthy, exited,
\* timed-out and, when a reload raises, failed with the traceback as the
\* reason.
C20_Terminates ==
    /\ PollsBounded
    /\ []( pc = "checked"
             => \/ result.alive
                \/ result.reason.kind \in {"exited", "timeout"}
                \/ result.reason.kind = "traceback" /\ "reload" \in raised )

\* the seventh poll, the last one that can start, found the container
\* running
C20_Witness ==
    /\ pc = "ca_probe"
    /\ polls = MaxPolls
    /\ t = 21
    /\ container.status = "running"

(* ------------------------- the worker pool --------------------------- *)
\* uuid u is on the work queue, not yet taken
Queued(u) == u \in Range(unfed) \cup Range(task_queue)

\* the workers that are at uuid u
Holders(u) == {w \in Workers : uuid_str[w] = u}

\* C11: under every interleaving a uuid put on the queue is returned by
\* at most one get(): it is either still on the queue or was taken by
\* exactly one worker, never both and never by two; so no two workers are
\* at the same uuid and the engine is invoked at most once per uuid in a
\* pool run.
C11_SingleConsumer ==
    \A u \in Ids :
       /\ pulled[u] <= 1
       /\ ~(Queued(u) /\ pulled[u] > 0)
       /\ Cardinality(Holders(u)) <= pulled[u]
       /\ invoked[u] <= pulled[u]
       /\ Len(result_queue[u]) <= pulled[u]

\* two workers run the engine at the same time, each on its own uuid
C11_Witness ==
    /\ wpc[1] = "engine"
    /\ wpc[2] = "engine"
    /\ uuid_str[1] # uuid_str[2]
    /\ pulled[uuid_str[1]] = 1
    /\ pulled[uuid_str[2]] = 1

\* C12: a task whose persisted status is done is never changed by the
\* pool: its status, cost, workspace and logs stay as they are and the
\* engine is not invoked for it; the worker that pulls it leaves run_datou
\* at once (skipped, or the metadata file could not be read).
C12_DoneAbsorbing ==
    /\ [][ \A u \in Ids :
              task[u].status = "done"
                 => (task'[u] = task[u] /\ invoked'[u] = invoked[u]) ]_vars
    /\ [][ \A w \in Workers :
              (wpc[w] = "load" /\ task[uuid_str[w]].status = "done" /\ wpc'[w] # "load")
                 => /\ wpc'[w] = "put"
                    /\ exitpath'[w] \in {"skipped", "load_raised"}
                    /\ session'[w] = "none" ]_vars

\* a worker pulled a task an earlier run left done and skipped it
C12_Witness ==
    \E w \in Workers :
       /\ wpc[w] = "put"
       /\ exitpath[w] = "skipped"
       /\ res[w] = "success"
       /\ task[uuid_str[w]] = [status |-> "done", cost |-> 1, workspace |-> "old"]
       /\ invoked[uuid_str[w]] = 0

\* run_datou set the status of the uuid of worker w to running and was
\* left since
Began(w) ==
    wpc[w] = "put" /\ exitpath[w] \notin {"skipped", "load_raised"}

\* C13: the engine is invoked only with the status running persisted, and
\* once run_datou is left for a uuid whose status it set to running, the
\* persisted status is done or failed, never running: done exactly when
\* the engine returned in the finished state.
C13_StatusProtocol ==
    \A w \in Workers :
       /\ wpc[w] = "engine" => task[uuid_str[w]].status = "running"
       /\ wpc[w] = "finally" => invoked[uuid_str[w]] > 0
       /\ Began(w)
             => /\ task[uuid_str[w]].status \in {"done", "failed"}
                /\ task[uuid_str[w]].status = "done" <=> exitpath[w] = "finished"

\* C14: once run_datou is left for a uuid whose status it set to running,
\* the session container was torn down (docker rm -f was issued), on every
\* path: engine finished, not finished, raising, or a failure between the
\* persisting of running and the engine call.
C14_Teardown ==
    \A w \in Workers :
       /\ Began(w) => session[w] = "removed"
       /\ wpc[w] \in {"put", "while", "get", "load", "exited"} => session[w] # "up"

\* every position a worker process can be at
WpcValues ==
    {"unstarted", "while", "get", "load", "setup", "engine", "finally", "put", "exited"}

\* worker w is inside run_datou
InRun(w) == wpc[w] \in {"load", "setup", "engine", "finally"}

\* C17: an exception raised in run_datou never ends the worker: it is
\* caught, the worker puts a result for the uuid (the traceback when the
\* exception left run_datou) and is back at the head of its loop; a step
\* of a worker changes the persisted task of no uuid but its own; and a
\* uuid once taken is either with its worker or has its result reported,
\* so no failure makes a taken or a queued uuid disappear.
C17_WorkerIsolation ==
    /\ []( \A w \in Workers :
             /\ wpc[w] \in WpcValues
             /\ (wpc[w] = "put" /\ exitpath[w] \in {"load_raised", "setup_raised", "persist_raised"})
                   => res[w] = "traceback"
             /\ (wpc[w] = "put" /\ exitpath[w] \in {"raised", "unfinished"})
                   => (res[w] = "success" /\ task[uuid_str[w]].status = "failed") )
    /\ [][ \A w \in Workers :
              (wpc[w] = "put" /\ wpc'[w] # "put")
                 => /\ wpc'[w] = "while"
                    /\ result_queue'[uuid_str[w]] = Append(result_queue[uuid_str[w]], res[w]) ]_vars
    /\ [][ \A u \in Ids :
              task'[u] # task[u]
                 => \E w \in Workers :
                       /\ uuid_str[w] = u
                       /\ InRun(w)
                       /\ wpc'[w] # wpc[w]
                       /\ \A v \in Ids \ {u} : task'[v] = task[v] ]_vars
    /\ [][ task_queue' # task_queue
              => \/ (unfed # << >> /\ task_queue' = Append(task_queue, Head(unfed)))
                 \/ \E w \in Workers :
                       /\ wpc[w] = "get"
                       /\ uuid_str'[w] = Head(task_queue)
                       /\ task_queue' = Tail(task_queue) ]_vars
    /\ []( \A u \in Ids :
             pulled[u] > 0
                => \/ \E w \in Workers : uuid_str[w] = u /\ (InRun(w) \/ wpc[w] = "put")
                   \/ Len(result_queue[u]) = pulled[u]
                   \/ mpc \in {"drain", "done"} )

\* the only worker started failed on the first uuid outside the try block,
\* reported the traceback, and is now running the second uuid
C17_Witness ==
    /\ wpc[1] = "finally"
    /\ wpc[2] = "unstarted"
    /\ uuid_str[1] = 2
    /\ result_queue[1] = <<"traceback">>
    /\ task[1].status = "running"

\* C19: for every number of queued uuids and every interleaving, the pool
\* run goes on until main has joined every worker and returned: no worker
\* sits in get() on a queue that is empty and will stay so.
C19_PoolTerminates ==
    /\ mpc = "done" \/ ENABLED NextPool
    /\ \A w \in Workers :
          wpc[w] = "get" => (task_queue # << >> \/ unfed # << >>)

====
